---- MODULE Spec2Model ----
(***************************************************************************)
(* Word-bingo card game (React, TypeScript).  The repository holds four    *)
(* revisions of one App.tsx:                                               *)
(*   v1  src/src/App.tsx:1-317         PlayerPageBase, raw configuration   *)
(*   v2  src/src/App.tsx:319-615       inline normalization, ErrorBoundary *)
(*   v3  src/unnamed/part_000:1-267    first player page                   *)
(*   v4  src/unnamed/part_000:269-578  normalizeConfig, Safe, ErrorBoundary*)
(* shuffle, countCompletedLines and the Card component are the same in all *)
(* four.  The pure functions are modelled from v4.                         *)
(*                                                                         *)
(* JavaScript values are tagged records; a JavaScript string is a sequence *)
(* of one-character strings, so that trimming and String() really compute. *)
(* JavaScript indices are 0-based, TLA+ sequences 1-based: the element at  *)
(* JavaScript index i of a is a[i + 1].                                    *)
(***************************************************************************)
EXTENDS Integers, Sequences, FiniteSets, TLC

VARIABLES
    arg,           \* argument of the pure function under check
    ret,           \* its result, NoRet before the call
    rev,           \* the revision of the player page that runs: "v1" or "v4"
    alive,         \* PlayerPage's effect has not been cleaned up
    fetch,         \* "none" (no src parameter), "pending" or "done"
    data,          \* PlayerPage: the loaded configuration, Null before
    err,           \* PlayerPage (v4): the error shown, "none" without one
    boundary,      \* ErrorBoundary holds a render error
    cat,           \* the active category, <<>> for ""
    grid,          \* the card, Null before the first one
    report,        \* how the last pick or new-card ended for the user
    cardMounted,   \* a Card component is mounted
    marked,        \* Card: the mark matrix, <<>> while no Card is mounted
    effectPending, \* Card: the effect that resets the marks is scheduled
    lines,         \* Card: the memoized completed-line count
    bingo,         \* Card: the BINGO badge as rendered
    untouched      \* history: no cell was toggled since the last card was generated

pureVars == <<arg, ret>>
loadVars == <<rev, alive, fetch, data, err, boundary>>
sessionVars == <<cat, grid, report>>
cardVars == <<cardMounted, marked, effectPending, lines, bingo, untouched>>
vars == <<arg, ret, rev, alive, fetch, data, err, boundary, cat, grid, report,
          cardMounted, marked, effectPending, lines, bingo, untouched>>

(***************************************************************************)
(* Program constants.                                                      *)
(***************************************************************************)
SIZE == 4
REQUIRED_LINES == 3

(***************************************************************************)
(* Bounds of the model.                                                    *)
(***************************************************************************)
\* Math.random() is drawn from { k / RandDen : k \in 0 .. RandDen - 1 }.
RandDen == 3
\* The drawn values repeat with this period along one shuffle.
RndPeriod == 2
\* Raw word lists have SIZE*SIZE - WordsBelow .. SIZE*SIZE + WordsAbove elements.
WordsBelow == 2
WordsAbove == 1

(***************************************************************************)
(* JavaScript values.                                                      *)
(***************************************************************************)
Null == [t |-> "null"]
Undefined == [t |-> "undefined"]
Bool(b) == [t |-> "boolean", b |-> b]
Num(n) == [t |-> "number", n |-> n]
Str(s) == [t |-> "string", s |-> s]
Arr(a) == [t |-> "array", a |-> a]
\* An object: its own keys (strings as character sequences) in Object.keys
\* order, and the value of each.
Obj(k, o) == [t |-> "object", k |-> k, o |-> o]

\* NaN, and a function (an inherited method such as Object.prototype.toString)
NaN == [t |-> "nan"]
Fn == [t |-> "function"]

isArr(v) == v.t = "array"

WhiteSpace == {" ", "\t", "\n"}

Digit == <<"0", "1", "2", "3", "4", "5", "6", "7", "8", "9">>

RECURSIVE NatToString(_)
NatToString(n) ==
    IF n < 10 THEN <<Digit[n + 1]>>
    ELSE NatToString(n \div 10) \o <<Digit[(n % 10) + 1]>>

\* String(v) of the language, as a character sequence.
RECURSIVE String(_)
String(v) ==
    CASE v.t = "null" -> <<"n", "u", "l", "l">>
      [] v.t = "undefined" -> <<"u", "n", "d", "e", "f", "i", "n", "e", "d">>
      [] v.t = "boolean" ->
            IF v.b THEN <<"t", "r", "u", "e">> ELSE <<"f", "a", "l", "s", "e">>
      [] v.t = "number" ->
            IF v.n < 0 THEN <<"-">> \o NatToString(0 - v.n) ELSE NatToString(v.n)
      [] v.t = "string" -> v.s
      [] v.t = "array" ->
            \* Array.prototype.join(","): null and undefined elements print empty
            LET RECURSIVE Join(_)
                Join(i) ==
                    IF i > Len(v.a) THEN <<>>
                    ELSE (IF i > 1 THEN <<",">> ELSE <<>>)
                         \o (IF v.a[i].t \in {"null", "undefined"} THEN <<>>
                             ELSE String(v.a[i]))
                         \o Join(i + 1)
            IN  Join(1)
      [] v.t = "object" ->
            <<"[", "o", "b", "j", "e", "c", "t", " ",
              "O", "b", "j", "e", "c", "t", "]">>
      [] v.t = "nan" -> <<"N", "a", "N">>
      [] v.t = "function" -> <<"f", "u", "n", "c", "t", "i", "o", "n">>

\* const S = (v: any) => String(v ?? "");
\* Mutant of S: String(v) without the ?? "".
SWithoutNullish(v) == Str(String(v))

S(v) == IF v.t \in {"null", "undefined"} THEN Str(<<>>) ELSE Str(String(v))

RECURSIVE TrimStart(_)
TrimStart(s) ==
    IF s # <<>> /\ Head(s) \in WhiteSpace THEN TrimStart(Tail(s)) ELSE s

RECURSIVE TrimEnd(_)
TrimEnd(s) ==
    IF s # <<>> /\ s[Len(s)] \in WhiteSpace
    THEN TrimEnd(SubSeq(s, 1, Len(s) - 1))
    ELSE s

\* String.prototype.trim
trim(v) == Str(TrimEnd(TrimStart(v.s)))

\* Boolean(v): null, undefined, NaN, false, 0 and "" are falsy.
Truthy(v) ==
    CASE v.t \in {"null", "undefined", "nan"} -> FALSE
      [] v.t = "boolean" -> v.b
      [] v.t = "number" -> v.n # 0
      [] v.t = "string" -> v.s # <<>>
      [] OTHER -> TRUE

\* raw.map(S).map((s) => s.trim()).filter(Boolean): three passes.
normalizeWords(raw) ==
    IF ~isArr(raw) THEN <<>>
    ELSE LET coerced == [i \in 1 .. Len(raw.a) |-> S(raw.a[i])]
             trimmed == [i \in 1 .. Len(coerced) |-> trim(coerced[i])]
             kept[i \in 0 .. Len(trimmed)] ==
                 IF i = 0 THEN <<>>
                 ELSE IF Truthy(trimmed[i]) THEN Append(kept[i - 1], trimmed[i])
                      ELSE kept[i - 1]
         IN  kept[Len(trimmed)]

(***************************************************************************)
(* Property access and Object.keys.                                        *)
(***************************************************************************)
\* Names every object inherits from Object.prototype (two of them).
ObjectPrototype ==
    { <<"t", "o", "S", "t", "r", "i", "n", "g">>,
      <<"c", "o", "n", "s", "t", "r", "u", "c", "t", "o", "r">> }

IsDigits(k) == k # <<>> /\ \A i \in DOMAIN k : \E d \in DOMAIN Digit : Digit[d] = k[i]

DigitValue(ch) == (CHOOSE d \in DOMAIN Digit : Digit[d] = ch) - 1

RECURSIVE DigitsToNat(_)
DigitsToNat(k) ==
    IF k = <<>> THEN 0
    ELSE 10 * DigitsToNat(SubSeq(k, 1, Len(k) - 1)) + DigitValue(k[Len(k)])

\* A canonical array index: "0", "1", ..., no leading zero.
IsIndexKey(k) == IsDigits(k) /\ (Len(k) = 1 \/ k[1] # "0")

\* The keys of an object literal in the order Object.keys lists them:
\* index keys ascending, then the others in insertion order.
RECURSIVE AscendingIndexKeys(_)
AscendingIndexKeys(ks) ==
    IF ks = {} THEN <<>>
    ELSE LET least == CHOOSE k \in ks :
                        \A other \in ks : DigitsToNat(k) <= DigitsToNat(other)
         IN  <<least>> \o AscendingIndexKeys(ks \ {least})

KeyOrder(keys) ==
    AscendingIndexKeys({keys[i] : i \in {j \in DOMAIN keys : IsIndexKey(keys[j])}})
    \o SelectSeq(keys, LAMBDA k : ~IsIndexKey(k))

\* JSON.parse of an object literal with the given keys and values, in
\* source order, keys distinct.
JsonObject(keys, vals) ==
    LET ordered == KeyOrder(keys)
    IN  Obj(ordered,
            [i \in DOMAIN ordered |->
                vals[CHOOSE j \in DOMAIN keys : keys[j] = ordered[i]]])

\* Object.keys(v) for an object or an array.
ObjectKeys(v) ==
    CASE v.t = "object" -> v.k
      [] v.t = "array" -> [i \in DOMAIN v.a |-> NatToString(i - 1)]
      [] OTHER -> <<>>

\* The TypeError a property read of null or undefined throws.
TypeError == [t |-> "TypeError"]

\* v[key]; on null or undefined it throws.
Get(v, key) ==
    CASE v.t \in {"null", "undefined"} -> TypeError
      [] v.t = "object" ->
            IF \E i \in DOMAIN v.k : v.k[i] = key
            THEN v.o[CHOOSE i \in DOMAIN v.k : v.k[i] = key]
            ELSE IF key \in ObjectPrototype THEN Fn ELSE Undefined
      [] v.t = "array" ->
            IF IsIndexKey(key) /\ DigitsToNat(key) < Len(v.a)
            THEN v.a[DigitsToNat(key) + 1]
            ELSE IF key \in ObjectPrototype THEN Fn ELSE Undefined
      [] OTHER -> IF key \in ObjectPrototype THEN Fn ELSE Undefined

\* Mutant of OptGet: v.key, without the ?.
OptGetNotOptional(v, key) == Get(v, key)

\* v?.key
OptGet(v, key) == IF v.t \in {"null", "undefined"} THEN Undefined ELSE Get(v, key)

\* typeof v === "object", for a truthy v
IsObjectType(v) == v.t \in {"object", "array"}

\* Number(v), for the values modelled: integers and integer strings.
Number(v) ==
    CASE v.t = "undefined" -> NaN
      [] v.t = "null" -> Num(0)
      [] v.t = "boolean" -> Num(IF v.b THEN 1 ELSE 0)
      [] v.t = "number" -> v
      [] v.t = "string" ->
            LET s == trim(v).s
            IN  IF s = <<>> THEN Num(0)
                ELSE IF IsDigits(s) THEN Num(DigitsToNat(s))
                ELSE IF s[1] = "-" /\ IsDigits(Tail(s)) THEN Num(0 - DigitsToNat(Tail(s)))
                ELSE NaN
      [] v.t = "array" ->
            IF v.a = <<>> THEN Num(0)
            ELSE IF Len(v.a) = 1 /\ v.a[1].t = "number" THEN v.a[1]
            ELSE NaN
      [] OTHER -> NaN

\* a || b
Or(a, b) == IF Truthy(a) THEN a ELSE b

KeyCats == <<"c", "a", "t", "s">>
KeyOrd == <<"o", "r", "d">>
KeySize == <<"s", "i", "z", "e">>
KeyLines == <<"l", "i", "n", "e", "s">>

Config(cats, size, requiredLines, ord) ==
    [cats |-> cats, size |-> size, lines |-> requiredLines, ord |-> ord]

\* An exception thrown by one of the property reads leaves the function; the
\* result is then the TypeError instead of a Config.
normalizeConfig(json) ==
    LET reads == {OptGet(json, KeyCats), OptGet(json, KeyOrd),
                  OptGet(json, KeySize), OptGet(json, KeyLines)}
        rawCats ==
            IF Truthy(OptGet(json, KeyCats)) /\ IsObjectType(Get(json, KeyCats))
            THEN Get(json, KeyCats)
            ELSE Obj(<<>>, <<>>)
        keys == ObjectKeys(rawCats)
        \* for (const k of Object.keys(rawCats)) cats[S(k)] = normalizeWords(rawCats[k])
        cats == Obj([i \in DOMAIN keys |-> S(Str(keys[i])).s],
                    [i \in DOMAIN keys |-> Arr(normalizeWords(Get(rawCats, keys[i])))])
        ord == IF isArr(OptGet(json, KeyOrd))
               THEN Arr(normalizeWords(Get(json, KeyOrd)))
               ELSE Arr([i \in DOMAIN cats.k |-> Str(cats.k[i])])
        size == Or(Number(OptGet(json, KeySize)), Num(SIZE))
        requiredLines == Or(Number(OptGet(json, KeyLines)), Num(REQUIRED_LINES))
    IN  IF TypeError \in reads THEN TypeError
        ELSE Config(cats, size, requiredLines, ord)

(***************************************************************************)
(* shuffle.  rs is the sequence of values Math.random() returns, each the  *)
(* numerator k of k / RandDen; the t-th call of the loop reads rs[t].      *)
(***************************************************************************)
\* Mutant of Swap: a[i] = a[j] without the exchange.
SwapCopyOnly(a, i, j) == [a EXCEPT ![i + 1] = a[j + 1]]

Swap(a, i, j) == [a EXCEPT ![i + 1] = a[j + 1], ![j + 1] = a[i + 1]]

\* Mutant of DrawIndex: Math.floor(Math.random() * i), never i itself.
DrawIndexBelow(r, i) == (r * i) \div RandDen

\* const j = Math.floor(Math.random() * (i + 1)), Math.random() = r / RandDen
DrawIndex(r, i) == (r * (i + 1)) \div RandDen

RECURSIVE ShuffleLoop(_, _, _, _)
ShuffleLoop(a, i, rs, t) ==
    IF i > 0
    THEN ShuffleLoop(Swap(a, i, DrawIndex(rs[t], i)), i - 1, rs, t + 1)
    ELSE a

\* The caller's array after shuffle(arr): const a = [...arr] copies it and
\* every swap writes to the copy.
ArrayAfterShuffle(arr, rs) == arr

shuffle(arr, rs) == ShuffleLoop(arr, Len(arr) - 1, rs, 1)

\* Array.prototype.slice(0, n)
Slice0(a, n) == SubSeq(a, 1, IF n < Len(a) THEN n ELSE Len(a))

\* a[i] of the language: undefined out of range
At(a, i) == IF i >= 0 /\ i < Len(a) THEN a[i + 1] ELSE Undefined

\* throw new Error(`... (필요: ${needed}, 제공: ${words.length})`)
Throw(needed, provided) == [t |-> "throw", needed |-> needed, provided |-> provided]
Grid(g) == [t |-> "grid", grid |-> g]
NoRet == [t |-> "none"]

\* Mutant of generateCard: the length test reads the raw input, not the
\* normalized list.
generateCardRawLength(wordsInput, rs) ==
    LET words == normalizeWords(wordsInput)
        needed == SIZE * SIZE
    IN  IF isArr(wordsInput) /\ Len(wordsInput.a) < needed
        THEN Throw(needed, Len(wordsInput.a))
        ELSE LET picks == Slice0(shuffle(words, rs), needed)
             IN  Grid([r \in 1 .. SIZE |->
                        [c \in 1 .. SIZE |-> S(At(picks, (r - 1) * SIZE + (c - 1)))]])

generateCard(wordsInput, rs) ==
    LET words == normalizeWords(wordsInput)
        needed == SIZE * SIZE
    IN  IF Len(words) < needed THEN Throw(needed, Len(words))
        ELSE LET picks == Slice0(shuffle(words, rs), needed)
             IN  Grid([r \in 1 .. SIZE |->
                        [c \in 1 .. SIZE |-> S(At(picks, (r - 1) * SIZE + (c - 1)))]])

\* Mutant of DisplayOrder: data.ord is taken whenever it is there, empty or not.
DisplayOrderNoLengthTest(cfg) ==
    LET cats == cfg.cats
        from == IF Truthy(cfg.ord) THEN cfg.ord.a
                ELSE [i \in DOMAIN cats.k |-> Str(cats.k[i])]
    IN  SelectSeq(from, LAMBDA n : Truthy(Get(cats, S(n).s)))

\* PlayerPage: the categories offered, in display order (v4).
\* (data.ord && data.ord.length ? data.ord : Object.keys(cats)).filter((n) => !!cats[n])
DisplayOrder(cfg) ==
    LET cats == cfg.cats
        from == IF Truthy(cfg.ord) /\ Len(cfg.ord.a) # 0
                THEN cfg.ord.a
                ELSE [i \in DOMAIN cats.k |-> Str(cats.k[i])]
    IN  SelectSeq(from, LAMBDA n : Truthy(Get(cats, S(n).s)))

(***************************************************************************)
(* Inputs of the card generator.                                           *)
(***************************************************************************)
Letters == <<"a", "b", "c", "d", "e", "f", "g", "h", "i", "j", "k", "l", "m",
             "n", "o", "p", "q", "r", "s", "t", "u", "v", "w", "x", "y", "z">>

Word(i) == Str(<<Letters[i]>>)

MinWords == SIZE * SIZE - WordsBelow
MaxWords == SIZE * SIZE + WordsAbove

Plain(n) == [i \in 1 .. n |-> Word(i)]

WordLists ==
    UNION { { Arr(Plain(n)),
              \* a word twice
              Arr([Plain(n) EXCEPT ![2] = Word(1)]),
              \* distinct raw strings, equal once trimmed
              Arr([Plain(n) EXCEPT ![2] = Str(<<" ", "a", "\t">>)]),
              \* elements that normalization drops
              Arr([Plain(n) EXCEPT ![3] = Null]),
              Arr([Plain(n) EXCEPT ![5] = Str(<<" ", " ">>)]),
              \* elements that are not strings
              Arr([Plain(n) EXCEPT ![4] = Num(12)]),
              Arr([Plain(n) EXCEPT ![6] = Bool(TRUE)]) }
            : n \in MinWords .. MaxWords }

NotLists == {Null, Undefined, Num(16), Str(<<"a", "b">>), Obj(<<>>, <<>>)}

RndPatterns == [1 .. RndPeriod -> 0 .. RandDen - 1]

\* The pattern p repeated to n draws.
Draws(p, n) == [t \in 1 .. n |-> p[((t - 1) % RndPeriod) + 1]]

\* No page is mounted: the state of the page while a pure function is checked.
NoPage ==
    /\ rev = "v4" /\ alive = FALSE /\ fetch = "none" /\ data = Null
    /\ err = "none" /\ boundary = FALSE
    /\ cat = <<>> /\ grid = Null /\ report = "none"
    /\ cardMounted = FALSE /\ marked = <<>> /\ effectPending = FALSE
    /\ lines = 0 /\ bingo = FALSE /\ untouched = TRUE

GenInit ==
    /\ arg \in { [words |-> w, rs |-> Draws(p, MaxWords)] :
                 w \in WordLists \cup NotLists, p \in RndPatterns }
    /\ ret = NoRet
    /\ NoPage

CallGenerateCard ==
    /\ ret = NoRet
    /\ ret' = generateCard(arg.words, arg.rs)
    /\ UNCHANGED <<arg, loadVars, sessionVars, cardVars>>

GenNext == CallGenerateCard

SpecGen == GenInit /\ [][GenNext]_vars

(***************************************************************************)
(* shuffle alone.  With at most RandDen elements every index 0 .. i can be *)
(* drawn at every step of the loop.                                        *)
(***************************************************************************)
MaxShuffleLen == RandDen

ShuffleInputs == UNION { [1 .. n -> {Word(i) : i \in 1 .. MaxShuffleLen}] : n \in 0 .. MaxShuffleLen }

\* The values Math.random() may return along one shuffle.
ShuffleRandoms == [1 .. MaxShuffleLen - 1 -> 0 .. RandDen - 1]

\* arr is the caller's array as it is now, given the array the caller passed.
ShuffleInit ==
    /\ arg \in { [fn |-> "shuffle", given |-> a, arr |-> a, rs |-> rs] :
                 a \in ShuffleInputs, rs \in ShuffleRandoms }
    /\ ret = NoRet
    /\ NoPage

CallShuffle ==
    /\ ret = NoRet
    /\ ret' = [t |-> "shuffled", out |-> shuffle(arg.arr, arg.rs)]
    /\ arg' = [arg EXCEPT !.arr = ArrayAfterShuffle(arg.arr, arg.rs)]
    /\ UNCHANGED <<loadVars, sessionVars, cardVars>>

ShuffleNext == CallShuffle

SpecShuffle == ShuffleInit /\ [][ShuffleNext]_vars

(***************************************************************************)
(* Claims about the card generator (SpecGen).                              *)
(***************************************************************************)
\* How often x occurs in the sequence a.
Count(a, x) == Cardinality({i \in DOMAIN a : a[i] = x})

\* The cells of a grid, row by row.
Cells(g) == [k \in 1 .. Len(g) * SIZE |-> g[((k - 1) \div SIZE) + 1][((k - 1) % SIZE) + 1]]

NoDuplicates(a) == \A i, j \in DOMAIN a : a[i] = a[j] => i = j

\* The word list the generator works on.
GenWords == normalizeWords(arg.words)

\* C1: with at least 16 normalized words, generateCard returns 4 rows of 4
\* cells whose 16 values are a sub-multiset of the word list: no word occurs
\* in the card more often than in the list, and a list without duplicates
\* gives 16 pairwise distinct cells.
C1_CardIsSubMultiset ==
    (ret # NoRet /\ Len(GenWords) >= 16) =>
        /\ ret.t = "grid"
        /\ Len(ret.grid) = 4
        /\ \A r \in 1 .. 4 : Len(ret.grid[r]) = 4
        /\ \A k \in 1 .. 16 :
              /\ Count(GenWords, Cells(ret.grid)[k]) >= 1
              /\ Count(Cells(ret.grid), Cells(ret.grid)[k])
                    <= Count(GenWords, Cells(ret.grid)[k])
        /\ NoDuplicates(GenWords) => NoDuplicates(Cells(ret.grid))

\* A card drawn from a list with a duplicate and more than 16 words, whose
\* cells are not the first 16 words in list order.
C1_Witness ==
    /\ ret.t = "grid"
    /\ Len(GenWords) > 16
    /\ ~NoDuplicates(GenWords)
    /\ Cells(ret.grid) # SubSeq(GenWords, 1, 16)

\* C2: with fewer than 16 normalized words, generateCard throws an error
\* that carries the required count 16 and the actual count, and returns no
\* grid.
C2_InsufficientWords ==
    (ret # NoRet /\ Len(GenWords) < 16) =>
        /\ ret.t = "throw"
        /\ ret.needed = 16
        /\ ret.provided = Len(GenWords)

\* The failure at the boundary: a raw list of 16 elements, 15 after
\* normalization.
C2_Witness ==
    /\ ret.t = "throw"
    /\ isArr(arg.words)
    /\ Len(arg.words.a) = 16
    /\ ret.provided = 15

(***************************************************************************)
(* Inputs of the normalizer.                                               *)
(***************************************************************************)
\* Raw lists have at most this many elements (the five-element list of the
\* documented example is added as it is).
MaxListLen == 2

RawElems ==
    { Null, Undefined,
      Str(<<"x">>), Str(<<"y">>), Str(<<" ", " ", "z", " ", " ">>),
      Str(<<>>), Str(<<" ", "\t">>), Str(<<"x", " ", "y">>),
      Num(0), Num(12), Bool(FALSE),
      Arr(<<>>), Arr(<<Null, Str(<<"x">>)>>), Obj(<<>>, <<>>) }

ExampleList ==
    Arr(<<Str(<<"x">>), Str(<<"y">>), Null, Str(<<" ", " ", "z", " ", " ">>), Str(<<"y">>)>>)

RawWordInputs ==
    { Arr(a) : a \in UNION { [1 .. n -> RawElems] : n \in 0 .. MaxListLen } }
    \cup {ExampleList}
    \cup NotLists \cup {Bool(TRUE), Str(<<>>)}

NameA == <<"A">>
NameB == <<"B">>
NotAnObject == Str(<<"n", "o", "t", "-", "a", "n", "-", "o", "b", "j", "e", "c", "t">>)

CatsChoices ==
    { Undefined, Null, NotAnObject, Num(5), Num(0), Bool(TRUE), Bool(FALSE),
      Arr(<<>>), Arr(<<Str(<<"x">>)>>), Arr(<<Arr(Plain(SIZE * SIZE))>>),
      Obj(<<>>, <<>>),
      JsonObject(<<NameA>>, <<Arr(Plain(SIZE * SIZE))>>),
      JsonObject(<<NameB, NameA>>, <<Arr(Plain(3)), Arr(Plain(SIZE * SIZE))>>),
      JsonObject(<<NameA>>, <<NotAnObject>>),
      JsonObject(<<NameA>>, <<ExampleList>>),
      JsonObject(<<NameB, <<"1">>, <<" ", "A">>>>, <<Arr(Plain(2)), Arr(Plain(1)), Null>>) }

OrdChoices ==
    { Undefined, Null, NotAnObject, Arr(<<>>),
      Arr(<<Str(NameA), Str(NameB)>>),
      Arr(<<Str(NameB), Str(NameA)>>),
      Arr(<<Str(<<" ", "A", " ">>), Null, Num(1)>>),
      Arr(<<Str(<<"t", "o", "S", "t", "r", "i", "n", "g">>)>>) }

SizeChoices == {Undefined, Num(5), Num(0), Num(0 - 2), Str(<<"6">>), Str(<<"x">>)}
LinesChoices == {Undefined, Num(2), Num(0 - 1), Str(<<" ", "5">>)}

\* The document { cats, ord, size, lines }; an Undefined field is absent.
Doc(c, o, z, l) ==
    LET all == <<<<KeyCats, c>>, <<KeyOrd, o>>, <<KeySize, z>>, <<KeyLines, l>>>>
        present == SelectSeq(all, LAMBDA f : f[2] # Undefined)
    IN  JsonObject([i \in DOMAIN present |-> present[i][1]],
                   [i \in DOMAIN present |-> present[i][2]])

RawDocs ==
    { Doc(c, o, z, l) : c \in CatsChoices, o \in OrdChoices,
                        z \in SizeChoices, l \in LinesChoices }
    \cup {Null, Num(1), NotAnObject, Bool(TRUE), Arr(<<>>)}

NormInit ==
    /\ arg \in { [fn |-> "normalizeWords", raw |-> r] : r \in RawWordInputs }
             \cup { [fn |-> "normalizeConfig", raw |-> j] : j \in RawDocs }
    /\ ret = NoRet
    /\ NoPage

CallNormalizeWords ==
    /\ ret = NoRet
    /\ arg.fn = "normalizeWords"
    /\ ret' = [t |-> "words", words |-> normalizeWords(arg.raw)]
    /\ UNCHANGED <<arg, loadVars, sessionVars, cardVars>>

CallNormalizeConfig ==
    /\ ret = NoRet
    /\ arg.fn = "normalizeConfig"
    /\ ret' = IF normalizeConfig(arg.raw) = TypeError
              THEN [t |-> "throw", error |-> TypeError]
              ELSE [t |-> "config", cfg |-> normalizeConfig(arg.raw)]
    /\ UNCHANGED <<arg, loadVars, sessionVars, cardVars>>

NormNext == CallNormalizeWords \/ CallNormalizeConfig

SpecNorm == NormInit /\ [][NormNext]_vars

(***************************************************************************)
(* countCompletedLines and the Card component (the same in v1 .. v4; lines *)
(* of v4).  A mark matrix is a sequence of rows of booleans.               *)
(***************************************************************************)
\* marked[r][c] of the language: undefined (falsy) out of range
MarkAt(m, r, c) ==
    IF r >= 0 /\ r < Len(m) /\ c >= 0 /\ c < Len(m[r + 1]) THEN m[r + 1][c + 1]
    ELSE FALSE

\* for (let r = 0; r < SIZE; r++) if (marked[r].every(Boolean)) lines++;
RowsCompleted(m) ==
    LET n[r \in 0 .. SIZE] ==
            IF r = 0 THEN 0
            ELSE n[r - 1] + (IF \A c \in DOMAIN m[r] : m[r][c] THEN 1 ELSE 0)
    IN  n[SIZE]

\* for (let c ...) { let ok = true; for (let r ...) if (!marked[r][c]) ok = false; if (ok) lines++; }
ColsCompleted(m) ==
    LET ok(c) == \A r \in 0 .. SIZE - 1 : MarkAt(m, r, c)
        n[c \in 0 .. SIZE] ==
            IF c = 0 THEN 0 ELSE n[c - 1] + (IF ok(c - 1) THEN 1 ELSE 0)
    IN  n[SIZE]

\* d1: if (!marked[i][i]) d1 = false;
Diagonal(m) == \A i \in 0 .. SIZE - 1 : MarkAt(m, i, i)

\* Mutant of AntiDiagonal: marked[i][SIZE - i].
AntiDiagonalOffByOne(m) == \A i \in 0 .. SIZE - 1 : MarkAt(m, i, SIZE - i)

\* Mutant of AntiDiagonal: if (marked[i][SIZE - 1 - i]) d2 = false, the ! lost.
AntiDiagonalNegated(m) == \A i \in 0 .. SIZE - 1 : ~MarkAt(m, i, SIZE - 1 - i)

\* d2: if (!marked[i][SIZE - 1 - i]) d2 = false;
AntiDiagonal(m) == \A i \in 0 .. SIZE - 1 : MarkAt(m, i, SIZE - 1 - i)

countCompletedLines(m) ==
    RowsCompleted(m) + ColsCompleted(m)
    + (IF Diagonal(m) THEN 1 ELSE 0) + (IF AntiDiagonal(m) THEN 1 ELSE 0)

\* Mutant of Bingo: lines > REQUIRED_LINES.
BingoStrict(n) == n > REQUIRED_LINES

\* Mutant of Bingo: lines >= REQUIRED_LINES - 1.
BingoOneShort(n) == n >= REQUIRED_LINES - 1

\* const bingo = lines >= REQUIRED_LINES;
Bingo(n) == n >= REQUIRED_LINES

\* Mutant of ToggleMarks: the cell is set, never cleared.
ToggleMarksSetOnly(cur, r, c) ==
    [ri \in DOMAIN cur |-> [ci \in DOMAIN cur[ri] |->
        IF ri - 1 = r /\ ci - 1 = c THEN TRUE ELSE cur[ri][ci]]]

\* Mutant of ToggleMarks: the column test is missing.
ToggleMarksWholeRow(cur, r, c) ==
    [ri \in DOMAIN cur |-> [ci \in DOMAIN cur[ri] |->
        IF ri - 1 = r THEN ~cur[ri][ci] ELSE cur[ri][ci]]]

\* cur.map((row, ri) => row.map((m, ci) => (ri === r && ci === c ? !m : m)))
ToggleMarks(cur, r, c) ==
    [ri \in DOMAIN cur |-> [ci \in DOMAIN cur[ri] |->
        IF ri - 1 = r /\ ci - 1 = c THEN ~cur[ri][ci] ELSE cur[ri][ci]]]

\* grid.map((row) => row.map((cell) => S(cell)))
SafeGrid(g) == [r \in DOMAIN g |-> [c \in DOMAIN g[r] |-> S(g[r][c])]]

\* safeGrid.map((r) => r.map(() => false))
AllFalseLike(g) == [r \in DOMAIN g |-> [c \in DOMAIN g[r] |-> FALSE]]

\* Mutant of SafeGridChanged: the dependency is compared by content.
SafeGridChangedByContent(old, new) == old # new

\* Whether the effect's dependency [safeGrid] changed when the grid prop went
\* from old to new: generateCard returns a new array each time, so the memo
\* on [grid] is recomputed and the dependency differs by identity.
SafeGridChanged(old, new) == TRUE

\* Card's first render: useState's initial value, the effect scheduled.
CardMount(g) ==
    /\ cardMounted' = TRUE
    /\ marked' = AllFalseLike(SafeGrid(g))
    /\ effectPending' = TRUE
    /\ lines' = countCompletedLines(AllFalseLike(SafeGrid(g)))
    /\ bingo' = Bingo(countCompletedLines(AllFalseLike(SafeGrid(g))))

\* Card leaves the tree: its state is dropped.
CardUnmount ==
    /\ cardMounted' = FALSE
    /\ marked' = <<>>
    /\ effectPending' = FALSE
    /\ lines' = 0
    /\ bingo' = FALSE

\* Card re-rendered with a new grid prop: the marks are the state it holds,
\* the memoized count is kept (its dependency [marked] is the same array),
\* and the effect is scheduled when safeGrid changed.
CardNewGrid(old, new) ==
    /\ effectPending' = SafeGridChanged(old, new)
    /\ UNCHANGED <<cardMounted, marked, lines, bingo>>

\* useEffect(() => setMarked(safeGrid.map((r) => r.map(() => false))), [safeGrid])
\* and the render that follows.  React runs a scheduled effect before it
\* handles the next event, so every handler waits for it.
CardEffect ==
    /\ cardMounted /\ effectPending
    /\ marked' = AllFalseLike(SafeGrid(grid))
    /\ effectPending' = FALSE
    /\ lines' = countCompletedLines(marked')
    /\ bingo' = Bingo(lines')
    /\ UNCHANGED <<cardMounted, untouched, pureVars, loadVars, sessionVars>>

\* onClick={() => toggle(r, c)} and the render that follows.
ToggleCell(r, c) ==
    /\ alive /\ cardMounted /\ ~effectPending
    /\ marked' = ToggleMarks(marked, r, c)
    /\ lines' = countCompletedLines(marked')
    /\ bingo' = Bingo(lines')
    /\ untouched' = FALSE
    /\ UNCHANGED <<cardMounted, effectPending, pureVars, loadVars, sessionVars>>

(***************************************************************************)
(* The player page.  In v4 (as in v2 and v3) PlayerPage calls useState for *)
(* cat and grid after the early returns for err and !data: the first       *)
(* render runs three hooks, the render after setData runs five, and React  *)
(* throws "Rendered more hooks than during the previous render", which the *)
(* ErrorBoundary catches.  Only v1, whose PlayerPageBase calls its hooks   *)
(* unconditionally, ever shows the category list and a card; the session   *)
(* handlers are modelled from v1.  They read the same in v4 (pick, the     *)
(* new-card and change-category buttons), except that v4's generateCard    *)
(* normalizes its argument.                                                *)
(***************************************************************************)
\* Mutant of generateCard_v1: slice(0, needed - 1), the last cell is left out.
generateCard_v1SliceShort(words, rs) ==
    LET needed == SIZE * SIZE
    IN  IF Len(words.a) < needed THEN Throw(needed, Len(words.a))
        ELSE LET picks == Slice0(shuffle(words.a, rs), needed - 1)
             IN  Grid([r \in 1 .. SIZE |->
                        [c \in 1 .. SIZE |-> At(picks, (r - 1) * SIZE + (c - 1))]])

\* Mutant of generateCard_v1: the side length is read from the loaded
\* configuration's size field.
generateCard_v1SizeFromConfig(words, rs) ==
    LET side == Or(Number(OptGet(IF data = Null THEN Undefined ELSE data, KeySize)),
                   Num(SIZE)).n
        needed == side * side
    IN  IF Len(words.a) < needed THEN Throw(needed, Len(words.a))
        ELSE LET picks == Slice0(shuffle(words.a, rs), needed)
             IN  Grid([r \in 1 .. side |->
                        [c \in 1 .. side |-> At(picks, (r - 1) * side + (c - 1))]])

\* v1 generateCard: no normalization, cells as they are in the list.
generateCard_v1(words, rs) ==
    LET needed == SIZE * SIZE
    IN  IF Len(words.a) < needed THEN Throw(needed, Len(words.a))
        ELSE LET picks == Slice0(shuffle(words.a, rs), needed)
             IN  Grid([r \in 1 .. SIZE |->
                        [c \in 1 .. SIZE |-> At(picks, (r - 1) * SIZE + (c - 1))]])

KeyError == <<"e", "r", "r", "o", "r">>

\* v1: { cats: {}, size: SIZE, lines: REQUIRED_LINES }, shown while loading
EmptyConfig ==
    JsonObject(<<KeyCats, KeySize, KeyLines>>,
               <<Obj(<<>>, <<>>), Num(SIZE), Num(REQUIRED_LINES)>>)

\* v1: the configuration set when the fetch fails
FailedConfig ==
    JsonObject(<<KeyCats, KeySize, KeyLines, KeyError>>,
               <<Obj(<<>>, <<>>), Num(SIZE), Num(REQUIRED_LINES), Str(<<"!">>)>>)

\* v1: data={data ?? { cats: {}, ... }}
PageData == IF data = Null THEN EmptyConfig ELSE data

\* v1: const cats = data?.cats || {};
PageCatsOf(d) == Or(OptGet(d, KeyCats), Obj(<<>>, <<>>))

PageCats == PageCatsOf(PageData)

\* v1: catNames
CatNamesOf(d) ==
    LET rawOrd == OptGet(d, KeyOrd)
        ord == IF isArr(rawOrd)
               THEN Arr(SelectSeq(rawOrd.a, LAMBDA n : Truthy(Get(PageCatsOf(d), String(n)))))
               ELSE Null
    IN  IF Truthy(ord) /\ Len(ord.a) # 0 THEN ord.a
        ELSE [i \in DOMAIN ObjectKeys(PageCatsOf(d)) |-> Str(ObjectKeys(PageCatsOf(d))[i])]

CatNames == CatNamesOf(PageData)

(***************************************************************************)
(* Configuration documents the page is given.                              *)
(***************************************************************************)
NameC == <<"C">>

\* Sixteen words, none of them among the first nine of Plain.
OtherWords == [i \in 1 .. SIZE * SIZE |-> Word(i + 9)]

\* A: more words than a card needs, B: too few, C: exactly enough.
DocGame ==
    Doc(JsonObject(<<NameA, NameB, NameC>>,
                   <<Arr(Plain(MaxWords)), Arr(Plain(3)), Arr(OtherWords)>>),
        Undefined, Undefined, Undefined)

\* An explicit order that names a category that does not exist.
DocOrdered ==
    Doc(JsonObject(<<NameA, NameC>>, <<Arr(Plain(SIZE * SIZE)), Arr(Plain(MinWords))>>),
        Arr(<<Str(NameC), Str(NameB), Str(NameA)>>), Num(5), Num(2))

DocNoCategories == Doc(Obj(<<>>, <<>>), Undefined, Undefined, Undefined)

\* Documents of the documented shape: cats maps names to lists of words.
WellFormedDocs == {DocGame, DocOrdered, DocNoCategories}

MalformedDocs ==
    { Null, NotAnObject,
      Doc(Arr(<<Str(<<"x">>)>>), Undefined, Undefined, Undefined),
      Doc(NotAnObject, Arr(<<Str(NameA)>>), Str(<<"x">>), Num(0)) }

\* v1 reads the document as it is, so it is given the well-formed ones.
DocsFor(revision) ==
    IF revision = "v1" THEN WellFormedDocs ELSE WellFormedDocs \cup MalformedDocs

\* The page's Math.random() returns the same value throughout one shuffle.
PagePatterns == {p \in RndPatterns : \A i \in DOMAIN p : p[i] = p[1]}

\* At most this many cells are marked at a time on the page.
MaxMarked == 2

MarkedCount(m) ==
    Cardinality({rc \in (0 .. SIZE - 1) \X (0 .. SIZE - 1) : MarkAt(m, rc[1], rc[2])})

(***************************************************************************)
(* The page's operations.                                                  *)
(***************************************************************************)
Init ==
    /\ arg = Null /\ ret = NoRet
    /\ rev \in {"v1", "v4"}
    /\ alive = TRUE
    /\ fetch \in {"pending", "none"}
    /\ data = Null
    \* if (!src) { setErr(...); return; }  (v4; v1 just returns)
    /\ err = IF fetch = "none" /\ rev = "v4" THEN "no-src" ELSE "none"
    /\ boundary = FALSE
    /\ cat = <<>> /\ grid = Null /\ report = "none"
    /\ cardMounted = FALSE /\ marked = <<>> /\ effectPending = FALSE
    /\ lines = 0 /\ bingo = FALSE /\ untouched = TRUE

\* The fetch resolves with a JSON document.
FetchOk(doc) ==
    /\ fetch = "pending"
    /\ fetch' = "done"
    /\ IF ~alive THEN UNCHANGED <<data, err, boundary>>
       ELSE IF rev = "v1"
       THEN \* if (alive) setRemote(json);
            data' = doc /\ UNCHANGED <<err, boundary>>
       ELSE \* v4: normalizeConfig, the empty test, setData and the next render
            LET cfg == normalizeConfig(doc)
            IN  IF Len(ObjectKeys(cfg.cats)) = 0
                THEN err' = "no-cats" /\ UNCHANGED <<data, boundary>>
                ELSE data' = cfg /\ boundary' = TRUE /\ UNCHANGED err
    /\ UNCHANGED <<rev, alive, pureVars, sessionVars, cardVars>>

\* Mutant of FetchFail: the catch branch sets the state without if (alive).
FetchFailUnguarded ==
    /\ fetch = "pending"
    /\ fetch' = "done"
    /\ IF rev = "v1" THEN data' = FailedConfig /\ UNCHANGED err
       ELSE err' = "fetch" /\ UNCHANGED data
    /\ UNCHANGED <<rev, alive, boundary, pureVars, sessionVars, cardVars>>

\* The fetch rejects, or the response is not ok, or its body is not JSON.
FetchFail ==
    /\ fetch = "pending"
    /\ fetch' = "done"
    /\ IF ~alive THEN UNCHANGED <<data, err>>
       ELSE IF rev = "v1" THEN data' = FailedConfig /\ UNCHANGED err
       ELSE err' = "fetch" /\ UNCHANGED data
    /\ UNCHANGED <<rev, alive, boundary, pureVars, sessionVars, cardVars>>

\* return () => { alive = false; }: the page is unmounted, its Card with it.
Cleanup ==
    /\ alive /\ ~effectPending
    /\ alive' = FALSE
    /\ CardUnmount
    /\ UNCHANGED <<rev, fetch, data, err, boundary, untouched, pureVars, sessionVars>>

\* The category list is on screen (v1).
ListShown ==
    alive /\ rev = "v1" /\ ~boundary /\ data # Null /\ Len(CatNames) # 0 /\ cat = <<>>

\* A category's page is on screen (v1).
CategoryShown ==
    alive /\ rev = "v1" /\ ~boundary /\ data # Null /\ Len(CatNames) # 0 /\ cat # <<>>

\* pickCategory(name), with the draws p, and the render that follows
Pick(name, p) ==
    /\ ListShown /\ ~effectPending
    /\ \E i \in DOMAIN CatNames : CatNames[i] = name
    /\ LET words == Or(Get(PageCats, String(name)), Arr(<<>>))
           made == generateCard_v1(words, Draws(p, MaxWords))
       IN  /\ cat' = String(name)
           /\ IF made.t = "grid"
              THEN grid' = made.grid /\ report' = "none" /\ untouched' = TRUE
              ELSE \* catch (e) { alert(e.message); }
                   grid' = grid /\ report' = "alert" /\ UNCHANGED untouched
           /\ IF grid' # Null THEN CardMount(grid') ELSE CardUnmount
    /\ UNCHANGED <<pureVars, loadVars>>

\* The new-card button: setGrid(generateCard(cats[cat])), no try around it.
NewCard(p) ==
    /\ CategoryShown /\ ~effectPending
    /\ LET made == generateCard_v1(Get(PageCats, cat), Draws(p, MaxWords))
       IN  IF made.t = "grid"
           THEN /\ grid' = made.grid /\ report' = "none" /\ untouched' = TRUE
                /\ IF cardMounted THEN CardNewGrid(grid, made.grid)
                   ELSE CardMount(made.grid)
           ELSE \* the handler throws: no state is set
                /\ report' = "uncaught"
                /\ UNCHANGED <<grid, untouched, cardVars>>
    /\ UNCHANGED <<cat, pureVars, loadVars>>

\* The change-category button: setCat("").  The Card leaves the tree; the
\* grid stays in the page's state.
ChangeCategory ==
    /\ CategoryShown /\ ~effectPending
    /\ cat' = <<>>
    /\ CardUnmount
    /\ UNCHANGED <<grid, report, untouched, pureVars, loadVars>>

\* A click on the cell (r, c) of the card; the page marks at most MaxMarked
\* cells at a time.
Toggle(r, c) ==
    /\ CategoryShown
    /\ MarkAt(marked, r, c) \/ MarkedCount(marked) < MaxMarked
    /\ ToggleCell(r, c)

Next ==
    \/ \E doc \in DocsFor(rev) : FetchOk(doc)
    \/ FetchFail
    \/ Cleanup
    \/ \E name \in {Str(NameA), Str(NameB), Str(NameC)}, p \in PagePatterns : Pick(name, p)
    \/ \E p \in PagePatterns : NewCard(p)
    \/ ChangeCategory
    \/ \E r, c \in 0 .. SIZE - 1 : Toggle(r, c)
    \/ CardEffect

Spec == Init /\ [][Next]_vars

(***************************************************************************)
(* The Card alone: the card of category A of DocGame, just mounted by a    *)
(* pick on the v1 page, under every sequence of clicks on its cells.       *)
(***************************************************************************)
CardInit ==
    /\ arg = Null /\ ret = NoRet
    /\ rev = "v1" /\ alive = TRUE /\ fetch = "done" /\ data = DocGame
    /\ err = "none" /\ boundary = FALSE
    /\ cat = NameA
    /\ grid = generateCard_v1(Get(PageCats, NameA),
                              Draws([i \in 1 .. RndPeriod |-> 1], MaxWords)).grid
    /\ report = "none"
    /\ cardMounted = TRUE
    /\ marked = AllFalseLike(SafeGrid(grid))
    /\ effectPending = TRUE
    /\ lines = countCompletedLines(marked)
    /\ bingo = Bingo(lines)
    /\ untouched = TRUE

CardToggle(r, c) == CategoryShown /\ ToggleCell(r, c)

CardNext ==
    \/ CardEffect
    \/ \E r, c \in 0 .. SIZE - 1 : CardToggle(r, c)

SpecCard == CardInit /\ [][CardNext]_vars

(***************************************************************************)
(* Claims about the Card and the win detector (SpecCard).                  *)
(***************************************************************************)
\* The ten lines of a 4x4 card, each the set of its cells <<row, column>>.
TenLines ==
    { {<<r, c>> : c \in 0 .. 3} : r \in 0 .. 3 }
    \cup { {<<r, c>> : r \in 0 .. 3} : c \in 0 .. 3 }
    \cup { {<<i, i>> : i \in 0 .. 3}, {<<i, 3 - i>> : i \in 0 .. 3} }

\* The lines all of whose cells are marked in m.
FullLines(m) == {L \in TenLines : \A rc \in L : m[rc[1] + 1][rc[2] + 1]}

\* The 4x4 matrix whose true cells are those of the given rows.
RowsMarked(rows) == [r \in 1 .. 4 |-> [c \in 1 .. 4 |-> (r - 1) \in rows]]

\* C3: countCompletedLines is the number of fully marked rows, columns and
\* diagonals, uncapped: 0 for all false, 10 for all true, 1 for row 0 alone.
C3_CountIsNumberOfFullLines ==
    cardMounted =>
        /\ countCompletedLines(marked) = Cardinality(FullLines(marked))
        /\ marked = RowsMarked({}) => countCompletedLines(marked) = 0
        /\ marked = RowsMarked({0, 1, 2, 3}) => countCompletedLines(marked) = 10
        /\ marked = RowsMarked({0}) => countCompletedLines(marked) = 1

\* Every cell has been marked, and ten lines are counted.
C3_Witness ==
    /\ cardMounted
    /\ marked = RowsMarked({0, 1, 2, 3})
    /\ countCompletedLines(marked) = 10

\* C4: while a card is displayed, the BINGO status on screen is true exactly
\* when the current marks complete at least 3 lines, and the count on screen
\* is that of the current marks; three fully marked rows give 3 and BINGO.
C4_BingoIsDerivedFromMarks ==
    cardMounted =>
        /\ lines = Cardinality(FullLines(marked))
        /\ bingo = (Cardinality(FullLines(marked)) >= 3)
        /\ \A rows \in SUBSET (0 .. 3) :
              (Cardinality(rows) = 3 /\ marked = RowsMarked(rows)) => lines = 3 /\ bingo

\* Rows 0, 1 and 3 are marked and nothing else: BINGO with exactly 3 lines.
C4_Witness ==
    /\ cardMounted
    /\ marked = RowsMarked({0, 1, 3})
    /\ bingo
    /\ lines = 3

\* C6: toggling the same cell twice gives back the matrix, cell by cell.
C6_ToggleSelfInverse ==
    cardMounted =>
        \A r, c \in 0 .. 3 :
            LET once == ToggleMarks(marked, r, c)
                twice == ToggleMarks(once, r, c)
            IN  /\ DOMAIN twice = DOMAIN marked
                /\ \A i \in DOMAIN marked :
                      /\ DOMAIN twice[i] = DOMAIN marked[i]
                      /\ \A j \in DOMAIN marked[i] : twice[i][j] = marked[i][j]

\* A matrix with marked and unmarked cells, on which one toggle of (1, 2)
\* changes the matrix and the second restores it.
C6_Witness ==
    /\ cardMounted /\ ~effectPending
    /\ marked[1][1] /\ ~marked[2][3] /\ marked[3][4]
    /\ ToggleMarks(marked, 1, 2) # marked
    /\ ToggleMarks(ToggleMarks(marked, 1, 2), 1, 2) = marked

(***************************************************************************)
(* Claims about the session (Spec).                                        *)
(***************************************************************************)
NoMarks4x4 == [r \in 1 .. 4 |-> [c \in 1 .. 4 |-> FALSE]]

\* C5: a click on cell (r, c) negates that cell of the mark matrix, keeps
\* the other 15 cells, and leaves the grid, the active category and the
\* configuration as they were.
C5_ToggleFlipsExactlyOneCell ==
    [][ \A r, c \in 0 .. 3 :
          ToggleCell(r, c) =>
              /\ DOMAIN marked' = 1 .. 4
              /\ \A i \in 1 .. 4 : DOMAIN marked'[i] = 1 .. 4
              /\ \A i, j \in 1 .. 4 :
                    marked'[i][j] = IF i = r + 1 /\ j = c + 1 THEN ~marked[i][j]
                                    ELSE marked[i][j]
              /\ grid' = grid /\ cat' = cat /\ data' = data ]_vars

\* After clicks on the card, cell (1, 2) is the one marked cell.
C5_Witness ==
    /\ cardMounted /\ ~untouched
    /\ MarkedCount(marked) = 1
    /\ marked[2][3]

\* C7: once a newly generated card is on screen and settled, and until a
\* cell of it is clicked, its mark matrix is the 4x4 all-false matrix of
\* the card's dimensions, whatever was marked before.
C7_NewCardHasFreshMarks ==
    (cardMounted /\ ~effectPending /\ untouched) =>
        /\ marked = NoMarks4x4
        /\ DOMAIN grid = DOMAIN marked
        /\ \A r \in DOMAIN grid : DOMAIN grid[r] = DOMAIN marked[r]

\* The new-card button was used on a card with marked cells: the new grid is
\* in place and the reset of the marks is about to run.
C7_Witness ==
    /\ cardMounted /\ untouched /\ effectPending
    /\ MarkedCount(marked) > 0

\* C8: the grid and the marks are replaced in one step: whenever the grid
\* on screen changes, the marks rendered with it are the fresh all-false
\* matrix.
C8_GridAndMarksSwapTogether ==
    [][ (grid' # grid /\ cardMounted') => marked' = NoMarks4x4 ]_vars

(***************************************************************************)
(* Claims about the normalizer (SpecNorm).                                 *)
(***************************************************************************)
\* The string coercion the claim names: null and absent give the empty
\* string, anything else its string representation.
Coerced(v) == IF v = Null \/ v = Undefined THEN <<>> ELSE String(v)

\* s without its surrounding whitespace: the part from the first to the last
\* character that is not whitespace.
Inner(s) ==
    LET solid == {i \in DOMAIN s : s[i] \notin WhiteSpace}
    IN  IF solid = {} THEN <<>>
        ELSE SubSeq(s, CHOOSE i \in solid : \A j \in solid : i <= j,
                       CHOOSE i \in solid : \A j \in solid : i >= j)

\* The indices of a raw list whose coerced and trimmed element is not empty.
Survivors(a) == {i \in DOMAIN a : Inner(Coerced(a[i])) # <<>>}

\* C9: normalizeWords gives the empty list for a non-list; for a list, the
\* coerced, trimmed, non-empty elements in their original order, duplicates
\* kept; ["x","y",null,"  z  ","y"] gives ["x","y","z","y"].
C9_NormalizeWords ==
    ret.t = "words" =>
        /\ ~isArr(arg.raw) => ret.words = <<>>
        /\ isArr(arg.raw) =>
              /\ Len(ret.words) = Cardinality(Survivors(arg.raw.a))
              /\ \A i \in Survivors(arg.raw.a) :
                    ret.words[Cardinality({j \in Survivors(arg.raw.a) : j <= i})]
                        = Str(Inner(Coerced(arg.raw.a[i])))
        /\ arg.raw = ExampleList =>
              ret.words = <<Str(<<"x">>), Str(<<"y">>), Str(<<"z">>), Str(<<"y">>)>>

\* The documented example has been normalized: an element dropped, one
\* trimmed, a duplicate kept.
C9_Witness ==
    /\ ret.t = "words"
    /\ arg.raw = ExampleList
    /\ Len(ret.words) = 4
    /\ ret.words[2] = ret.words[4]

\* The cats field of the raw input, Undefined when there is none.
RawCatsField == OptGet(arg.raw, KeyCats)

\* C10: a cats field that is not a mapping (absent, null, a string, a
\* number, a boolean or a list) normalizes to an empty category mapping and,
\* when there is no ord field, to an empty display order.
C10_NonMappingCatsGiveEmptyMapping ==
    (ret.t = "config" /\ RawCatsField.t # "object") =>
        /\ ret.cfg.cats.k = <<>>
        /\ OptGet(arg.raw, KeyOrd) = Undefined =>
              /\ ret.cfg.ord.a = <<>>
              /\ DisplayOrder(ret.cfg) = <<>>

\* The names of the normalized category mapping.
CfgKeys == {ret.cfg.cats.k[i] : i \in DOMAIN ret.cfg.cats.k}

\* C11: every name of the display order offered to the player is a key of
\* the normalized category mapping; names of the raw ord that are not
\* categories are dropped: ord ["A","B"] with the one category A gives ["A"].
C11_DisplayOrderNamesAreCategories ==
    ret.t = "config" =>
        /\ \A i \in DOMAIN DisplayOrder(ret.cfg) : DisplayOrder(ret.cfg)[i].s \in CfgKeys
        /\ (/\ ret.cfg.cats.k = <<NameA>>
            /\ OptGet(arg.raw, KeyOrd) = Arr(<<Str(NameA), Str(NameB)>>))
              => DisplayOrder(ret.cfg) = <<Str(NameA)>>

\* The raw ord field is absent, not a list, or the empty list.
NoRawOrder ==
    \/ OptGet(arg.raw, KeyOrd) = Undefined
    \/ ~isArr(OptGet(arg.raw, KeyOrd))
    \/ OptGet(arg.raw, KeyOrd) = Arr(<<>>)

Positive(v) == v.t = "number" /\ v.n > 0

\* C13: the normalized size and lines are the raw values coerced to
\* numbers when those are positive, and 4 and 3 otherwise (missing, not
\* numeric, NaN, zero or negative): both are always positive.
C13_SizeAndLinesArePositive ==
    ret.t = "config" =>
        /\ Positive(ret.cfg.size) /\ Positive(ret.cfg.lines)
        /\ ret.cfg.size = IF Positive(Number(OptGet(arg.raw, KeySize)))
                          THEN Number(OptGet(arg.raw, KeySize)) ELSE Num(4)
        /\ ret.cfg.lines = IF Positive(Number(OptGet(arg.raw, KeyLines)))
                           THEN Number(OptGet(arg.raw, KeyLines)) ELSE Num(3)

\* A list of strings (string[]).
IsStringList(v) == isArr(v) /\ \A i \in DOMAIN v.a : v.a[i].t = "string"

LoadedCategories ==
    IF data = Null THEN <<>>
    ELSE IF rev = "v1" THEN ObjectKeys(normalizeConfig(data).cats)
    ELSE ObjectKeys(data.cats)

\* The names the category list offers.
Offered == IF rev = "v1" THEN CatNames ELSE DisplayOrder(data)

\* C15: once the fetch has resolved with a document that normalizes to at
\* least one category, the page shows no error and no render-error fallback,
\* and, until a category is picked, offers categories to pick.
C15_LoadedPageOffersCategories ==
    (alive /\ fetch = "done" /\ LoadedCategories # <<>>) =>
        /\ ~boundary
        /\ err = "none"
        /\ cat = <<>> => Len(Offered) > 0

\* The normalized word list of the category of that name.
WordsOf(name) == normalizeWords(Get(PageCats, name))

IsCardOf(g, words) ==
    /\ DOMAIN g = 1 .. 4
    /\ \A r \in 1 .. 4 :
          /\ DOMAIN g[r] = 1 .. 4
          /\ \A c \in 1 .. 4 : \E i \in DOMAIN words : words[i] = g[r][c]

PickNames == {Str(NameA), Str(NameB), Str(NameC)}

\* C16: a pick of an offered category whose normalized word list has at
\* least 16 words makes it the active category and displays a 4x4 card of
\* words of that category with all marks false.
C16_PickShowsFreshCard ==
    [][ \A name \in PickNames, p \in PagePatterns :
          (Pick(name, p) /\ Len(WordsOf(name.s)) >= 16) =>
              /\ cat' = name.s
              /\ grid' # Null
              /\ IsCardOf(grid', WordsOf(name.s))
              /\ cardMounted'
              /\ marked' = NoMarks4x4
              /\ report' = "none" ]_vars

\* Category C, of exactly 16 words, was picked: its card is on screen,
\* unmarked.
C16_Witness ==
    /\ rev = "v1" /\ data = DocGame
    /\ cat = NameC /\ cardMounted /\ untouched
    /\ grid # Null
    /\ IsCardOf(grid, OtherWords)
    /\ marked = NoMarks4x4

\* C17: the grid is absent or a complete 4x4 grid with a word in each cell
\* (a failed generation leaves it as it was), and every failed generation
\* is reported to the user.
C17_FailedGenerationIsReported ==
    /\ grid # Null =>
          /\ DOMAIN grid = 1 .. 4
          /\ \A r \in 1 .. 4 :
                /\ DOMAIN grid[r] = 1 .. 4
                /\ \A c \in 1 .. 4 : grid[r][c].t = "string" /\ grid[r][c].s # <<>>
    /\ report \in {"none", "alert"}

(***************************************************************************)
(* Claims about shuffle (SpecShuffle).                                     *)
(***************************************************************************)
RECURSIVE Factorial(_)
Factorial(n) == IF n <= 1 THEN 1 ELSE n * Factorial(n - 1)

\* The indices j the loop draws on a list of n elements: the t-th for
\* i = n - t.
IndicesDrawn(n, rs) == [t \in 1 .. n - 1 |-> DrawIndex(rs[t], n - t)]

\* C18: the result of shuffle is a permutation of the input (same length,
\* same multiset), the input is not modified, every drawn j lies in 0 .. i,
\* and on n distinct elements the n! draw sequences give n! distinct
\* permutations: the result determines the draw sequence.
C18_ShuffleIsFisherYates ==
    ret.t = "shuffled" =>
        LET n == Len(arg.given)
        IN  /\ Len(ret.out) = n
            /\ \A i \in 1 .. n : Count(ret.out, arg.given[i]) = Count(arg.given, arg.given[i])
            /\ arg.arr = arg.given
            /\ \A t \in 1 .. n - 1 : IndicesDrawn(n, arg.rs)[t] \in 0 .. n - t
            /\ NoDuplicates(arg.given) =>
                  /\ Cardinality({IndicesDrawn(n, rs) : rs \in ShuffleRandoms}) = Factorial(n)
                  /\ Cardinality({shuffle(arg.given, rs) : rs \in ShuffleRandoms}) = Factorial(n)
                  /\ \A rs \in ShuffleRandoms :
                        shuffle(arg.given, rs) = ret.out
                            => IndicesDrawn(n, rs) = IndicesDrawn(n, arg.rs)

\* Three distinct elements came out in reverse order.
C18_Witness ==
    /\ ret.t = "shuffled"
    /\ arg.given = <<Word(1), Word(2), Word(3)>>
    /\ ret.out = <<Word(3), Word(2), Word(1)>>

(***************************************************************************)
(* Claims about the configuration's size and lines, and about the card of  *)
(* the active category (Spec).                                             *)
(***************************************************************************)
\* The object o with the field key set to val.
SetField(o, key, val) ==
    IF \E i \in DOMAIN o.k : o.k[i] = key
    THEN Obj(o.k, [i \in DOMAIN o.k |-> IF o.k[i] = key THEN val ELSE o.o[i]])
    ELSE Obj(Append(o.k, key), Append(o.o, val))

\* The configuration d with other size and lines fields.
Resized(d, z, l) == SetField(SetField(d, KeySize, z), KeyLines, l)

C20_CardIsOfActiveCategory ==
    (rev = "v1" /\ cat # <<>> /\ grid # Null) =>
        \A r \in DOMAIN grid : \A c \in DOMAIN grid[r] :
            \E i \in DOMAIN WordsOf(cat) : WordsOf(cat)[i] = S(grid[r][c])

(***************************************************************************)
(* Claim about the fetch and the cleanup of the page's effect (Spec).      *)
(***************************************************************************)
\* C21: a fetch that completes, with a document or with an error, after the
\* effect was cleaned up changes neither the loaded configuration nor the
\* error; these change only when the fetch completes while the effect is
\* live.
C21_StaleFetchSetsNothing ==
    [][ /\ (~alive /\ fetch = "pending" /\ fetch' = "done") => (data' = data /\ err' = err)
        /\ (data' # data \/ err' # err) => (alive /\ fetch = "pending" /\ fetch' = "done") ]_vars

\* The fetch completed after the cleanup: the page was never given a
\* configuration or an error.
C21_Witness ==
    /\ ~alive /\ fetch = "done"
    /\ data = Null /\ err = "none"

(***************************************************************************)
(* Claims about the marks and the completed lines (SpecCard).              *)
(***************************************************************************)
\* C22: the count on screen is that of the marks, a click that marks a cell
\* never lowers the completed-line count, and a click that unmarks a cell
\* never raises it.
C22_CountIsMonotone ==
    cardMounted =>
        /\ lines = countCompletedLines(marked)
        /\ \A r, c \in 0 .. 3 :
              IF marked[r + 1][c + 1]
              THEN countCompletedLines(ToggleMarks(marked, r, c)) <= lines
              ELSE countCompletedLines(ToggleMarks(marked, r, c)) >= lines

\* BINGO is on screen after clicks, and unmarking one of the marked cells
\* would take it away.
C22_Witness ==
    /\ cardMounted /\ ~untouched /\ bingo
    /\ \E r, c \in 0 .. 3 :
          /\ marked[r + 1][c + 1]
          /\ countCompletedLines(ToggleMarks(marked, r, c)) < 3

\* The number of true cells of a 4x4 matrix.
TrueCells(m) == Cardinality({rc \in (1 .. 4) \X (1 .. 4) : m[rc[1]][rc[2]]})

\* C23: whenever BINGO is shown at least 9 of the 16 cells are marked; no
\* mark matrix with 8 or fewer true cells completes 3 lines.
C23_BingoNeedsNineMarks ==
    cardMounted =>
        /\ bingo => TrueCells(marked) >= 9
        /\ TrueCells(marked) <= 8 => countCompletedLines(marked) < 3

\* BINGO with exactly 9 marked cells: row 0, column 1 and the diagonal.
C23_Witness ==
    /\ cardMounted /\ bingo
    /\ TrueCells(marked) = 9
    /\ \A c \in 1 .. 4 : marked[1][c]
    /\ \A r \in 1 .. 4 : marked[r][2] /\ marked[r][r]

====
